---- MODULE Spec2Model ----
(***************************************************************************)
(* Model of cmd/traceflow-plugin/main.go: the Octant plugin that creates   *)
(* and lists Antrea Traceflow custom resources and renders a two-node      *)
(* graph.  The handlers of the plugin are the actions; the Traceflow       *)
(* clientset (pkg/client/clientset/versioned) is the cluster-state store.  *)
(* Each handler runs to completion: the source starts no goroutine.        *)
(***************************************************************************)
EXTENDS Integers, Sequences, FiniteSets, TLC

(* ---------------------------------------------------------------------- *)
(* Program constants (main.go:23-38).                                      *)
(* ---------------------------------------------------------------------- *)
pluginName == "traceflowPlugin"
addTfAction == "traceflowPlugin/addTf"
showGraphAction == "traceflowPlugin/showGraphAction"

tfNameCol == "Trace"
srcNamespaceCol == "Source Namespace"
srcPodCol == "Source Pod"
dstNamespaceCol == "Destination Namespace"
dstPodCol == "Destination Pod"
crdCol == "Detailed Information"

crdBasePath == "/cluster-overview/custom-resources/traceflows.antrea.tanzu.vmware.com/"

(* ---------------------------------------------------------------------- *)
(* Bounds and input sets.                                                  *)
(* ---------------------------------------------------------------------- *)
\* The host stops submitting once the store holds MaxStore trace requests.
MaxStore == 2

NoErr == "nil"
Fatal == "fatal"
NoCall == "none"
Absent == "<absent>"

Names == {"", "t1", "t2"}
EndKeys == {"fromNamespace", "fromPod", "toNamespace", "toPod"}
GoodEnd == [fromNamespace |-> "ns1", fromPod |-> "pod-a", toNamespace |-> "ns2", toPod |-> "pod-b"]

\* The four endpoint values of a form: all filled in, or one of them left
\* empty, or one of them not sent at all.
EndChoices == {GoodEnd} \cup {[GoodEnd EXCEPT ![k] = v] : k \in EndKeys, v \in {"", Absent}}

\* A payload is a map from the keys that were sent to their string values.
MkPayload(f) == [k \in {x \in DOMAIN f : f[x] # Absent} |-> f[k]]

AddTfForm(n, e) == MkPayload([action |-> addTfAction, name |-> n, fromNamespace |-> e.fromNamespace, fromPod |-> e.fromPod, toNamespace |-> e.toNamespace, toPod |-> e.toPod])

\* The submits: every name with the endpoints filled in, and every choice of
\* the endpoints under one name.
AddTfPayloads == {AddTfForm(n, GoodEnd) : n \in Names \cup {Absent}} \cup {AddTfForm("t1", e) : e \in EndChoices}

OtherPayloads == {MkPayload([action |-> a, name |-> n]) : a \in {showGraphAction, "traceflowPlugin/other", Absent}, n \in Names \cup {Absent}}

Payloads == AddTfPayloads \cup OtherPayloads

NoPayload == MkPayload([action |-> Absent])

GvOutcomes == {"ok", "buildFails", "closeFails"}

(* ---------------------------------------------------------------------- *)
(* State.                                                                  *)
(* ---------------------------------------------------------------------- *)
VARIABLES
    store,      \* the Traceflow resources held by the cluster, in creation order
    graph,      \* traceflowPlugin.graph
    running,    \* FALSE once log.Fatal has ended the process
    last,       \* what the last handler call received, called and returned
    submitted,  \* history: the payloads of the successful submits, in order
    shown       \* history: the names of the completed show-graph actions, last two

vars == <<store, graph, running, last, submitted, shown>>

(* ---------------------------------------------------------------------- *)
(* Octant helpers.                                                         *)
(* ---------------------------------------------------------------------- *)
\* action.Payload.String: an error when the key is not in the payload.
PayloadStringNoCheck(p, key) == [err |-> FALSE, val |-> IF key \in DOMAIN p THEN p[key] ELSE ""]

PayloadString(p, key) == IF key \in DOMAIN p THEN [err |-> FALSE, val |-> p[key]] ELSE [err |-> TRUE, val |-> ""]

NewText(s) == [type |-> "text", value |-> s]

NewLink(title, text, ref) == [type |-> "link", title |-> title, value |-> text, ref |-> ref]

NewGraphviz(dot) == [type |-> "graphviz", value |-> dot]

(* ---------------------------------------------------------------------- *)
(* The cluster-state store: the Traceflow clientset.                       *)
(* ---------------------------------------------------------------------- *)
NameIn(st, name) == \E i \in 1..Len(st) : st[i].Name = name

\* Create: a transport failure, a conflict on the name, or the resource is added.
StoreCreate(st, tf, fail) ==
    IF fail THEN [err |-> "TransportError", store |-> st]
    ELSE IF NameIn(st, tf.Name) THEN [err |-> "ConflictError", store |-> st]
    ELSE [err |-> NoErr, store |-> Append(st, tf)]

\* Get: a transport failure, not found, or the resource of that name.
StoreGet(st, name, fail) ==
    IF fail THEN [err |-> "TransportError"]
    ELSE IF ~NameIn(st, name) THEN [err |-> "NotFoundError"]
    ELSE [err |-> NoErr]

\* The orders in which List may return the resources: the store imposes none.
Perms(n) == {p \in [1..n -> 1..n] : \A i, j \in 1..n : p[i] = p[j] => i = j}

StoreList(st, perm) == [i \in 1..Len(st) |-> st[perm[i]]]

(* ---------------------------------------------------------------------- *)
(* What a handler call leaves behind for the host.                         *)
(* ---------------------------------------------------------------------- *)
NoResp == [type |-> "none"]

\* op: the handler; req: its payload; ret: the error returned to the host
\* (Fatal when the process ended instead of returning); storeErr: the error
\* of the store call, NoCall when none was made; creates, gets: the arguments
\* of the Create and Get calls issued; listed: what List returned.
Outcome(op, req, ret, storeErr, creates, gets, listed, resp) ==
    [op |-> op, req |-> req, ret |-> ret, storeErr |-> storeErr, creates |-> creates, gets |-> gets, listed |-> listed, resp |-> resp]

(* ---------------------------------------------------------------------- *)
(* actionHandler, case addTfAction (main.go:103-141).                      *)
(* ---------------------------------------------------------------------- *)
AddTfKeys == <<"name", "fromNamespace", "fromPod", "toNamespace", "toPod">>

\* The fields are decoded in order; the first one that fails is returned.
FirstMissing(p) ==
    LET bad == {i \in 1..Len(AddTfKeys) : PayloadString(p, AddTfKeys[i]).err}
    IN IF bad = {} THEN 0 ELSE CHOOSE i \in bad : \A j \in bad : i <= j

DecodeErr(key) == "unable to get " \o key \o " at string"

ZeroPacket == <<>>
ZeroStatus == <<>>

CreateArgSwapped(name, fromNamespace, fromPod, toNamespace, toPod) ==
    [Name |-> name, SrcNamespace |-> fromNamespace, SrcPod |-> toPod, DstNamespace |-> toNamespace, DstPod |-> fromPod,
     DstService |-> "", RoundID |-> "", Packet |-> ZeroPacket, Status |-> ZeroStatus]

\* The Traceflow object handed to Create.
CreateArg(name, fromNamespace, fromPod, toNamespace, toPod) ==
    [Name |-> name, SrcNamespace |-> fromNamespace, SrcPod |-> fromPod, DstNamespace |-> toNamespace, DstPod |-> toPod,
     DstService |-> "", RoundID |-> "", Packet |-> ZeroPacket, Status |-> ZeroStatus]

AddTfStoreCallsRetry(st, tf, fail) ==
    LET first == StoreCreate(st, tf, fail)
        second == StoreCreate(st, tf, FALSE)
    IN IF first.err = NoErr THEN [err |-> first.err, store |-> first.store, creates |-> <<tf>>]
       ELSE [err |-> second.err, store |-> second.store, creates |-> <<tf, tf>>]

AddTfStoreCallsUpsert(st, tf, fail) ==
    LET r == StoreCreate(st, tf, fail)
    IN IF r.err = "ConflictError"
       THEN [err |-> NoErr, store |-> [i \in 1..Len(st) |-> IF st[i].Name = tf.Name THEN tf ELSE st[i]], creates |-> <<tf>>]
       ELSE [err |-> r.err, store |-> r.store, creates |-> <<tf>>]

\* The store calls of a submit: one Create.
AddTfStoreCalls(st, tf, fail) ==
    LET r == StoreCreate(st, tf, fail)
    IN [err |-> r.err, store |-> r.store, creates |-> <<tf>>]

AddTfReturnNil(err) == NoErr

\* if err != nil { return err }; return nil
AddTfReturn(err) == IF err # NoErr THEN err ELSE NoErr

AddTf(p, fail) ==
    /\ running
    /\ Len(store) < MaxStore
    /\ ~PayloadString(p, "action").err
    /\ PayloadString(p, "action").val = addTfAction
    /\ LET miss == FirstMissing(p)
       IN IF miss # 0
          THEN /\ last' = Outcome("action", p, DecodeErr(AddTfKeys[miss]), NoCall, <<>>, <<>>, <<>>, NoResp)
               /\ UNCHANGED <<store, submitted>>
          ELSE LET tf == CreateArg(PayloadString(p, "name").val, PayloadString(p, "fromNamespace").val,
                                   PayloadString(p, "fromPod").val, PayloadString(p, "toNamespace").val,
                                   PayloadString(p, "toPod").val)
                   r == AddTfStoreCalls(store, tf, fail)
                   ret == AddTfReturn(r.err)
               IN /\ store' = r.store
                  /\ last' = Outcome("action", p, ret, r.err, r.creates, <<>>, <<>>, NoResp)
                  /\ submitted' = IF ret = NoErr THEN Append(submitted, p) ELSE submitted
    /\ UNCHANGED <<graph, running, shown>>

(* ---------------------------------------------------------------------- *)
(* actionHandler, the other cases (main.go:96-100, 142-176).               *)
(* ---------------------------------------------------------------------- *)
\* The payload has no "action".
ActionMissing(p) ==
    /\ running
    /\ PayloadString(p, "action").err
    /\ last' = Outcome("action", p, "unable to get input at string", NoCall, <<>>, <<>>, <<>>, NoResp)
    /\ UNCHANGED <<store, graph, running, submitted, shown>>

\* graphviz: node <name>, node "m", edge "e" labelled "e", rendered as dot.
GenGraph(name) == "digraph { \"" \o name \o "\" -> m [label=e] }"

\* The store call of show-graph: one Get, which leaves the store as it is.
ShowGraphStoreCalls(st, name, fail) ==
    [err |-> StoreGet(st, name, fail).err, store |-> st, gets |-> <<name>>]

\* _, _ = ...Get(name, ...): the result of the lookup is discarded.
ShowGraphReturn(getErr) == NoErr

NextGraphKeepFirst(old, name) == IF old = "" THEN GenGraph(name) ELSE old

\* a.graph = buf.String()
NextGraph(old, name) == GenGraph(name)

ShowGraph(p, fail, gv) ==
    /\ running
    /\ ~PayloadString(p, "action").err
    /\ PayloadString(p, "action").val = showGraphAction
    /\ LET n == PayloadString(p, "name")
       IN IF n.err
          THEN /\ last' = Outcome("action", p, DecodeErr("name"), NoCall, <<>>, <<>>, <<>>, NoResp)
               /\ UNCHANGED <<store, graph, running, shown>>
          ELSE LET g == ShowGraphStoreCalls(store, n.val, fail)
               IN /\ store' = g.store
                  /\ CASE gv = "buildFails" ->
                            \* log.Fatal before a.graph is assigned
                            /\ running' = FALSE
                            /\ last' = Outcome("action", p, Fatal, g.err, <<>>, g.gets, <<>>, NoResp)
                            /\ UNCHANGED <<graph, shown>>
                       [] gv = "closeFails" ->
                            \* log.Fatal on graph.Close, after a.graph is assigned
                            /\ running' = FALSE
                            /\ graph' = NextGraph(graph, n.val)
                            /\ last' = Outcome("action", p, Fatal, g.err, <<>>, g.gets, <<>>, NoResp)
                            /\ UNCHANGED shown
                       [] OTHER ->
                            /\ graph' = NextGraph(graph, n.val)
                            /\ last' = Outcome("action", p, ShowGraphReturn(g.err), g.err, <<>>, g.gets, <<>>, NoResp)
                            /\ shown' = IF shown = <<>> THEN <<n.val>> ELSE <<shown[Len(shown)], n.val>>
                            /\ UNCHANGED running
    /\ UNCHANGED submitted

\* default: the action names no handler.
DefaultAction(p) ==
    /\ running
    /\ ~PayloadString(p, "action").err
    /\ PayloadString(p, "action").val \notin {addTfAction, showGraphAction}
    /\ last' = Outcome("action", p, "recieved action request for " \o pluginName \o ", but no handler defined", NoCall, <<>>, <<>>, <<>>, NoResp)
    /\ UNCHANGED <<store, graph, running, submitted, shown>>

(* ---------------------------------------------------------------------- *)
(* navHandler (main.go:88-94).                                             *)
(* ---------------------------------------------------------------------- *)
navHandler ==
    /\ running
    /\ last' = Outcome("nav", NoPayload, NoErr, NoCall, <<>>, <<>>, <<>>,
                       [type |-> "navigation", title |-> "Trace Flow", path |-> <<pluginName, "components">>, icon |-> "cloud"])
    /\ UNCHANGED <<store, graph, running, submitted, shown>>

(* ---------------------------------------------------------------------- *)
(* traceflowHandler and getTfRows (main.go:183-263).                       *)
(* ---------------------------------------------------------------------- *)
\* One table row: five texts and the link to the resource.
TfRow(tf) ==
    (tfNameCol :> NewText(tf.Name)) @@ (srcNamespaceCol :> NewText(tf.SrcNamespace)) @@ (srcPodCol :> NewText(tf.SrcPod))
    @@ (dstNamespaceCol :> NewText(tf.DstNamespace)) @@ (dstPodCol :> NewText(tf.DstPod))
    @@ (crdCol :> NewLink(tf.Name, tf.Name, crdBasePath \o tf.Name))

RECURSIVE AppendRows(_, _, _)
\* for _, tf := range tfs.Items { tfRows = append(tfRows, ...) }
AppendRows(items, i, tfRows) ==
    IF i > Len(items) THEN tfRows ELSE AppendRows(items, i + 1, Append(tfRows, TfRow(items[i])))

getTfRowsSkipFirst(items) == AppendRows(items, 2, <<>>)

getTfRows(items) == AppendRows(items, 1, <<>>)

\* The two forms of the first card.
ActionCard ==
    [title |-> "Antrea Traceflow", body |-> NewText(""),
     actions |-> << [name |-> "Start New Trace", fields |-> <<"name", "fromNamespace", "fromPod", "toNamespace", "toPod">>, action |-> addTfAction],
                    [name |-> "Generate Trace Graph", fields |-> <<"name">>, action |-> showGraphAction] >>]

\* The cards of the section: the graph card is added when a.graph is set.
ListSection(g) ==
    LET graphCard == [title |-> "Antrea Traceflow Graph", body |-> IF g # "" THEN NewGraphviz(g) ELSE NewText(""), actions |-> <<>>]
    IN IF g # "" THEN <<ActionCard, graphCard>> ELSE <<ActionCard>>

tfCols == <<tfNameCol, srcNamespaceCol, srcPodCol, dstNamespaceCol, dstPodCol, crdCol>>

traceflowHandler(perm, listFail) ==
    /\ running
    /\ IF listFail
       THEN \* log.Fatalf("Failed to get Traceflows %v", err)
            /\ running' = FALSE
            /\ last' = Outcome("render", NoPayload, Fatal, "TransportError", <<>>, <<>>, <<>>, NoResp)
       ELSE LET items == StoreList(store, perm)
            IN /\ last' = Outcome("render", NoPayload, NoErr, NoErr, <<>>, <<>>, items,
                                  [type |-> "content", title |-> "Antrea Traceflow", section |-> ListSection(graph),
                                   table |-> "Trace List", cols |-> tfCols, rows |-> getTfRows(items)])
               /\ UNCHANGED running
    /\ UNCHANGED <<store, graph, submitted, shown>>

(* ---------------------------------------------------------------------- *)
(* The plugin served by the host.                                          *)
(* ---------------------------------------------------------------------- *)
\* newTraceflowPlugin: graph "", and no call has been served.
Init ==
    /\ store = <<>>
    /\ graph = ""
    /\ running = TRUE
    /\ last = Outcome("init", NoPayload, NoErr, NoCall, <<>>, <<>>, <<>>, NoResp)
    /\ submitted = <<>>
    /\ shown = <<>>

\* The payloads by the case of actionHandler they reach.
WithAction(as) == {p \in Payloads : "action" \in DOMAIN p /\ p["action"] \in as}

NoActionPayloads == {p \in Payloads : "action" \notin DOMAIN p}

Next ==
    \/ \E p \in NoActionPayloads : ActionMissing(p)
    \/ \E p \in WithAction({addTfAction}), fail \in BOOLEAN : AddTf(p, fail)
    \/ \E p \in WithAction({showGraphAction}), fail \in BOOLEAN, gv \in GvOutcomes : ShowGraph(p, fail, gv)
    \/ \E p \in WithAction({"traceflowPlugin/other"}) : DefaultAction(p)
    \/ navHandler
    \/ \E perm \in Perms(Len(store)), listFail \in BOOLEAN : traceflowHandler(perm, listFail)

Spec == Init /\ [][Next]_vars

(* ---------------------------------------------------------------------- *)
(* Vocabulary of the properties.                                           *)
(* ---------------------------------------------------------------------- *)
TypeOK == running \in BOOLEAN /\ Len(store) <= MaxStore /\ Len(submitted) <= MaxStore /\ Len(shown) <= 2

StoreErrors == {"ConflictError", "NotFoundError", "TransportError"}

\* The call was a submit: an action request naming addTf.
Submit(l) == l.op = "action" /\ "action" \in DOMAIN l.req /\ l.req["action"] = addTfAction

\* The call was a show-graph action carrying a name.
ShowGraphCall(l) == l.op = "action" /\ "action" \in DOMAIN l.req /\ l.req["action"] = showGraphAction /\ "name" \in DOMAIN l.req

\* The call was a render that returned its content.
RenderOk(l) == l.op = "render" /\ l.ret = NoErr

HasAllFields(req) == \A i \in 1..Len(AddTfKeys) : AddTfKeys[i] \in DOMAIN req

HasEmptyField(req) == \E i \in 1..Len(AddTfKeys) : AddTfKeys[i] \in DOMAIN req /\ req[AddTfKeys[i]] = ""

NeverSubmitted(name) == \A i \in 1..Len(submitted) : submitted[i]["name"] # name

\* The request cannot be dispatched or decoded.
Undecodable(req) ==
    \/ "action" \notin DOMAIN req
    \/ req["action"] \notin {addTfAction, showGraphAction}
    \/ req["action"] = addTfAction /\ ~HasAllFields(req)
    \/ req["action"] = showGraphAction /\ "name" \notin DOMAIN req

RowMatches(row, p) ==
    /\ row[tfNameCol].value = p["name"]
    /\ row[srcNamespaceCol].value = p["fromNamespace"]
    /\ row[srcPodCol].value = p["fromPod"]
    /\ row[dstNamespaceCol].value = p["toNamespace"]
    /\ row[dstPodCol].value = p["toPod"]

OthersZero(tf) == tf.DstService = "" /\ tf.RoundID = "" /\ tf.Packet = <<>> /\ tf.Status = <<>>

GraphCards(resp) == {i \in 1..Len(resp.section) : resp.section[i].title = "Antrea Traceflow Graph"}

(* ---------------------------------------------------------------------- *)
(* Properties.                                                             *)
(* ---------------------------------------------------------------------- *)
\* C1: a submit in which one of the five fields is the empty string returns a
\* validation error of the plugin and issues no Create call.
C1_EmptyFieldRejected ==
    (Submit(last) /\ HasEmptyField(last.req)) =>
        (last.ret \notin ({NoErr, Fatal} \cup StoreErrors) /\ last.creates = <<>>)

\* C2: the store never holds two trace requests of one name; a submit of a
\* name the store already holds, answered by the store, returns ConflictError
\* and leaves the store as it was, and the entry of a name carries the fields
\* of the first successful submit of that name.
C2_DuplicateNameConflicts ==
    /\ [](\A i, j \in 1..Len(store) : store[i].Name = store[j].Name => i = j)
    /\ [](\A i \in 1..Len(store) : \E k \in 1..Len(submitted) :
             /\ submitted[k]["name"] = store[i].Name
             /\ \A m \in 1..(k - 1) : submitted[m]["name"] # store[i].Name
             /\ store[i].SrcNamespace = submitted[k]["fromNamespace"] /\ store[i].SrcPod = submitted[k]["fromPod"]
             /\ store[i].DstNamespace = submitted[k]["toNamespace"] /\ store[i].DstPod = submitted[k]["toPod"])
    /\ [][(Submit(last') /\ last'.creates # <<>> /\ last'.storeErr # "TransportError" /\ NameIn(store, last'.req["name"]))
              => (last'.ret = "ConflictError" /\ store' = store)]_vars

\* C2 witness: a second submit of a stored name, with other fields, was refused.
C2_Witness ==
    /\ Submit(last) /\ last.ret = "ConflictError" /\ Len(store) = 1
    /\ store[1].Name = last.req["name"] /\ store[1].SrcPod # last.req["fromPod"]

\* C3: a render that returns lists exactly one row per successful submit, with
\* the five values of that submit, and every stored trace request has its
\* other fields at their zero values.
C3_ListAllMatchesSubmits ==
    /\ \A i \in 1..Len(store) : OthersZero(store[i])
    /\ RenderOk(last) =>
          /\ Len(last.resp.rows) = Len(submitted)
          /\ \A i \in 1..Len(submitted) :
                Cardinality({j \in 1..Len(last.resp.rows) : RowMatches(last.resp.rows[j], submitted[i])}) = 1
          /\ \A j \in 1..Len(last.resp.rows) : \E i \in 1..Len(submitted) : RowMatches(last.resp.rows[j], submitted[i])

\* C3 witness: two submits succeeded and a render listed two rows.
C3_Witness == RenderOk(last) /\ Len(submitted) = 2 /\ Len(last.resp.rows) = 2

\* C4: a failing List during a render is returned as TransportError and the
\* process keeps running.
C4_ListFailureReturned ==
    (last.op = "render" /\ last.storeErr = "TransportError") => (running /\ last.ret = "TransportError")

\* C5: the lookup of show-graph for a name never submitted returns
\* NotFoundError, and a transport failure of the lookup returns TransportError.
C5_LookupErrorReturned ==
    (ShowGraphCall(last) /\ running /\ last.gets # <<>>) =>
        /\ last.storeErr = "TransportError" => last.ret = "TransportError"
        /\ (last.storeErr # "TransportError" /\ NeverSubmitted(last.gets[1])) => last.ret = "NotFoundError"

\* C6: a submit issues at most one Create call; a conflict or a transport
\* error of that call is the error the action returns, and a submit that
\* returns an error leaves the store as it was.
C6_OneCreateNoRetry ==
    /\ [](Submit(last) =>
             /\ Len(last.creates) <= 1
             /\ (last.storeErr \in StoreErrors => last.ret = last.storeErr))
    /\ [][(Submit(last') /\ (last'.ret # NoErr \/ last'.storeErr \in StoreErrors)) => store' = store]_vars

\* C6 witness: the one Create call of a submit failed in transport and the
\* submit returned that error.
C6_Witness ==
    Submit(last) /\ Len(last.creates) = 1 /\ last.storeErr = "TransportError" /\ last.ret = "TransportError"

\* C7: a render that returns has one row per trace request that List returned,
\* in that order, with the five texts of the request and a link named by the
\* request's name to <base-path>/<name>.
C7_RowsFollowList ==
    RenderOk(last) =>
        /\ Len(last.resp.rows) = Len(last.listed)
        /\ \A i \in 1..Len(last.listed) :
              LET row == last.resp.rows[i]
                  tf == last.listed[i]
              IN /\ DOMAIN row = {tfNameCol, srcNamespaceCol, srcPodCol, dstNamespaceCol, dstPodCol, crdCol}
                 /\ row[tfNameCol] = [type |-> "text", value |-> tf.Name]
                 /\ row[srcNamespaceCol] = [type |-> "text", value |-> tf.SrcNamespace]
                 /\ row[srcPodCol] = [type |-> "text", value |-> tf.SrcPod]
                 /\ row[dstNamespaceCol] = [type |-> "text", value |-> tf.DstNamespace]
                 /\ row[dstPodCol] = [type |-> "text", value |-> tf.DstPod]
                 /\ row[crdCol].type = "link" /\ row[crdCol].value = tf.Name
                 /\ row[crdCol].ref = "/cluster-overview/custom-resources/traceflows.antrea.tanzu.vmware.com/" \o tf.Name

\* C7 witness: List returned two trace requests in another order than they
\* were created, and the render returned.
C7_Witness == RenderOk(last) /\ Len(last.listed) = 2 /\ last.listed # store

\* C8: no step removes or changes a stored trace request, and only a submit
\* changes the store at all.
C8_NoUpdateNoDelete ==
    [][/\ Len(store') >= Len(store)
       /\ \A i \in 1..Len(store) : store'[i] = store[i]
       /\ ~Submit(last') => store' = store]_vars

\* C8 witness: a submit for a stored name with other fields was made and the
\* stored entry is still the old one.
C8_Witness ==
    /\ Submit(last) /\ last.creates # <<>> /\ last.storeErr = "ConflictError"
    /\ \E i \in 1..Len(store) : store[i].Name = last.creates[1].Name /\ store[i] # last.creates[1]

\* C9: the graph starts empty and, once set, is never empty again; a
\* completed show-graph action overwrites it with the graph of its name; a
\* render has a graph card exactly when the graph is set, and the card shows
\* the graph of the most recently completed show-graph action.
C9_LastGraphShown ==
    /\ graph = ""
    /\ [][graph # "" => graph' # ""]_vars
    /\ [][(ShowGraphCall(last') /\ last'.ret = NoErr) => (graph' # "" /\ graph' = GenGraph(last'.req["name"]))]_vars
    /\ [](RenderOk(last) =>
             /\ (GraphCards(last.resp) # {}) <=> (graph # "")
             /\ Cardinality(GraphCards(last.resp)) <= 1
             /\ \A i \in GraphCards(last.resp) :
                   /\ shown # <<>>
                   /\ last.resp.section[i].body = [type |-> "graphviz", value |-> GenGraph(shown[Len(shown)])])

\* C9 witness: show-graph completed for two different names and a later render
\* shows the graph of the second.
C9_Witness ==
    /\ RenderOk(last) /\ Len(shown) = 2 /\ shown[1] # shown[2]
    /\ \E i \in GraphCards(last.resp) : last.resp.section[i].body.value = GenGraph(shown[2])

\* C10: an action request that cannot be dispatched or decoded returns an
\* error, issues no store call and leaves the store and the graph unchanged.
C10_UndecodableChangesNothing ==
    [][(last'.op = "action" /\ Undecodable(last'.req)) =>
          /\ last'.ret \notin {NoErr, Fatal}
          /\ last'.creates = <<>> /\ last'.gets = <<>>
          /\ store' = store /\ graph' = graph /\ running' = running]_vars

\* C10 witness: a submit lacking one endpoint field was refused while the
\* store and the graph were set.
C10_Witness ==
    /\ Submit(last) /\ "name" \in DOMAIN last.req /\ ~HasAllFields(last.req)
    /\ last.ret \notin {NoErr, Fatal} /\ store # <<>> /\ graph # ""

====
